---------------------------- MODULE Spec2Model ----------------------------
(***************************************************************************)
(* cliff: the command registry (cliff/commandmanager.py, CommandManager)   *)
(* and the interactive shell (cliff/interactive.py, InteractiveApp).       *)
(*                                                                         *)
(* Python strings are modelled as sequences of one-character strings, so   *)
(* that joining, prefix tests, replace() and word splitting are computed   *)
(* character by character, as the code computes them.                      *)
(***************************************************************************)
EXTENDS Integers, Sequences, FiniteSets, TLC

VARIABLES
    commands,             \* CommandManager.commands: name -> loader
    convert_underscores,  \* CommandManager.convert_underscores
    entry_points,         \* what pkg_resources.iter_entry_points yielded
    last_add,             \* history: name -> class of the latest add_command
    call,                 \* the CommandManager call that has just returned
    state,                \* the shell loop: Reading, Dispatching, Done, Aborted
    line,                 \* the input line being dispatched
    lastcmd,              \* cmd.Cmd.lastcmd
    shell,                \* what dispatching the line did
    completion            \* what the last completion request was answered

registry_vars == <<commands, convert_underscores, entry_points, last_add, call>>
shell_vars == <<state, line, lastcmd, shell, completion>>
vars == <<commands, convert_underscores, entry_points, last_add, call,
          state, line, lastcmd, shell, completion>>

-----------------------------------------------------------------------------
(* Bounds *)

\* longest argv handed to find_command
MaxArgv == 3

-----------------------------------------------------------------------------
(* Strings *)

empty == <<>>
foo == <<"f", "o", "o">>
bar == <<"b", "a", "r">>
foo_bar == <<"f", "o", "o", "_", "b", "a", "r">>
foo_bar_baz == <<"f", "o", "o", "_", "b", "a", "r", "_", "b", "a", "z">>
baz == <<"b", "a", "z">>
foo_sp_bar == <<"f", "o", "o", " ", "b", "a", "r">>
dash_f == <<"-", "f">>

\* str.startswith(prefix)
startswith(s, prefix) ==
    /\ Len(s) >= Len(prefix)
    /\ SubSeq(s, 1, Len(prefix)) = prefix

\* str.replace('_', ' ')
\* variant: str.replace('_', ' ', 1), only the first underscore
replace_first_underscore(s) ==
    [i \in 1..Len(s) |->
        IF s[i] = "_" /\ \A j \in 1..(i - 1) : s[j] # "_" THEN " " ELSE s[i]]
replace_underscores(s) ==
    [i \in 1..Len(s) |-> IF s[i] = "_" THEN " " ELSE s[i]]

\* ' '.join(tokens): the tokens in order, one space between neighbours
RECURSIVE join(_)
join(tokens) ==
    IF tokens = <<>> THEN <<>>
    ELSE IF Len(tokens) = 1 THEN tokens[1]
    ELSE tokens[1] \o <<" ">> \o join(Tail(tokens))

-----------------------------------------------------------------------------
(* Inputs *)

\* the words an argv is made of
Tokens == {empty, foo, bar, baz, dash_f, foo_sp_bar, foo_bar}

\* the names add_command is called with
AddNames == {foo, foo_sp_bar, foo_bar}

\* a command class, as a value that can stand where a loader can
Class(id) == [kind |-> "class", id |-> id]

\* no class: nothing was loaded
NoClass == [kind |-> "none", id |-> "none"]

\* command classes
Classes == {Class("A"), Class("B")}

\* the entry points the plugin index may hold for the namespace
EntryPoints ==
    { [kind |-> "EntryPoint", name |-> foo, command_class |-> Class("P")],
      [kind |-> "EntryPoint", name |-> foo_bar, command_class |-> Class("Q")],
      [kind |-> "EntryPoint", name |-> foo_bar_baz, command_class |-> Class("R")] }

RECURSIVE SeqsUpTo(_, _)
SeqsUpTo(S, n) ==
    IF n = 0 THEN {<<>>}
    ELSE LET shorter == SeqsUpTo(S, n - 1)
         IN  shorter \cup {Append(s, x) : s \in {t \in shorter : Len(t) = n - 1}, x \in S}

Argvs == SeqsUpTo(Tokens, MaxArgv)

\* the orders in which the plugin index may yield its entry points
Discoveries ==
    {s \in SeqsUpTo(EntryPoints, Cardinality(EntryPoints)) :
        \A i, j \in 1..Len(s) : i # j => s[i] # s[j]}

-----------------------------------------------------------------------------
(* CommandManager *)

\* EntryPointWrapper.__init__
EntryPointWrapper(name, command_class) ==
    [kind |-> "EntryPointWrapper", name |-> name, command_class |-> command_class]

\* no loader: the name was not in the mapping
NoLoader == [kind |-> "none", name |-> <<>>, command_class |-> NoClass]

\* EntryPointWrapper.load, and the plugin index's EntryPoint.load
load(ep) == ep.command_class

\* self.commands[name] = value
setitem(cmds, name, value) ==
    [n \in DOMAIN cmds \cup {name} |-> IF n = name THEN value ELSE cmds[n]]

\* CommandManager._load_commands: one store per entry point, in order
RECURSIVE LoadCommandsFrom(_, _, _)
LoadCommandsFrom(cmds, eps, convert) ==
    IF eps = <<>> THEN cmds
    ELSE LET ep == Head(eps)
             cmd_name == IF convert THEN replace_underscores(ep.name) ELSE ep.name
         IN  LoadCommandsFrom(setitem(cmds, cmd_name, ep), Tail(eps), convert)

\* CommandManager.__init__
CommandManagerInit(eps, convert) == LoadCommandsFrom(<<>>, eps, convert)

\* how the constructor may be called: without convert_underscores, or with
\* it given as True or False
ConstructorArgs == {"omitted", "True", "False"}

\* def __init__(self, namespace, convert_underscores=True)
convert_underscores_parameter(arg) ==
    IF arg = "omitted" THEN TRUE ELSE arg = "True"

\* the accumulation step of the scan:
\* name = '%s %s' % (name, next_val) if name else next_val
Accumulate(name, next_val) ==
    IF name # <<>> THEN name \o <<" ">> \o next_val ELSE next_val

\* the name the scan holds after consuming tokens, in order
RECURSIVE ScanNameFrom(_, _)
ScanNameFrom(name, tokens) ==
    IF tokens = <<>> THEN name
    ELSE ScanNameFrom(Accumulate(name, Head(tokens)), Tail(tokens))

ScanName(tokens) == ScanNameFrom(<<>>, tokens)

Prefix(argv, k) == SubSeq(argv, 1, k)
Suffix(argv, k) == SubSeq(argv, k + 1, Len(argv))

\* what a find_command call leaves behind: how it ended (a returned triple
\* or a raised ValueError with its message and argument), the caller's list
\* object, the mapping, and the loaders load() was called on
Outcome(status, factory, name, rest, arg, argv, cmds, loaded) ==
    [status |-> status, factory |-> factory, name |-> name, rest |-> rest,
     arg |-> arg, argv |-> argv, commands |-> cmds, loaded |-> loaded]

\* raise ValueError('Invalid command %r' % search_args[0])
RaiseInvalid(search_args, argv, cmds) ==
    Outcome("Invalid command", NoClass, <<>>, <<>>, search_args[1], argv, cmds, <<>>)

\* raise ValueError('Unknown command %r' % (argv,))
\* variant: the error reports what is left of search_args
RaiseUnknownRest(search_args, argv, cmds) ==
    Outcome("Unknown command", NoClass, <<>>, <<>>, search_args, argv, cmds, <<>>)
RaiseUnknown(search_args, argv, cmds) ==
    Outcome("Unknown command", NoClass, <<>>, <<>>, argv, argv, cmds, <<>>)

\* cmd_ep = self.commands[name]; cmd_factory = cmd_ep.load();
\* return (cmd_factory, name, search_args)
\* variant: the loader is loaded a second time for the return value
ReturnMatchLoadedTwice(name, search_args, argv, cmds) ==
    Outcome("return", load(cmds[name]), name, search_args, <<>>, argv, cmds,
            <<cmds[name], cmds[name]>>)
\* variant: return (cmd_ep, name, search_args), the loader unloaded
ReturnMatchUnloaded(name, search_args, argv, cmds) ==
    Outcome("return", cmds[name], name, search_args, <<>>, argv, cmds, <<>>)
ReturnMatch(name, search_args, argv, cmds) ==
    Outcome("return", load(cmds[name]), name, search_args, <<>>, argv, cmds,
            <<cmds[name]>>)

\* variant: the scan goes on after a match and keeps the longest one
RECURSIVE FindLoopBest(_, _, _, _, _)
FindLoopBest(cmds, argv, search_args, name, best) ==
    IF search_args # <<>>
    THEN IF startswith(search_args[1], <<"-">>)
         THEN IF best.status = "return" THEN best
              ELSE RaiseInvalid(search_args, argv, cmds)
         ELSE LET next_val == Head(search_args)
                  popped == Tail(search_args)
                  name2 == Accumulate(name, next_val)
              IN  FindLoopBest(cmds, argv, popped, name2,
                      IF name2 \in DOMAIN cmds
                      THEN ReturnMatch(name2, popped, argv, cmds)
                      ELSE best)
    ELSE best
FindLoopLongest(cmds, argv, search_args, name) ==
    FindLoopBest(cmds, argv, search_args, name,
                 RaiseUnknown(search_args, argv, cmds))
\* variant: only the first token is tested for the option marker
RECURSIVE FindLoopFlagFirstOnly(_, _, _, _)
FindLoopFlagFirstOnly(cmds, argv, search_args, name) ==
    IF search_args # <<>>
    THEN IF name = <<>> /\ startswith(search_args[1], <<"-">>)
         THEN RaiseInvalid(search_args, argv, cmds)
         ELSE LET next_val == Head(search_args)
                  popped == Tail(search_args)
                  name2 == Accumulate(name, next_val)
              IN  IF name2 \in DOMAIN cmds
                  THEN ReturnMatch(name2, popped, argv, cmds)
                  ELSE FindLoopFlagFirstOnly(cmds, argv, popped, name2)
    ELSE RaiseUnknown(search_args, argv, cmds)
\* the while loop of find_command over the copy search_args
RECURSIVE FindLoop(_, _, _, _)
FindLoop(cmds, argv, search_args, name) ==
    IF search_args # <<>>
    THEN IF startswith(search_args[1], <<"-">>)
         THEN RaiseInvalid(search_args, argv, cmds)
         ELSE LET next_val == Head(search_args)
                  popped == Tail(search_args)
                  name2 == Accumulate(name, next_val)
              IN  IF name2 \in DOMAIN cmds
                  THEN ReturnMatch(name2, popped, argv, cmds)
                  ELSE FindLoop(cmds, argv, popped, name2)
    ELSE RaiseUnknown(search_args, argv, cmds)

\* CommandManager.find_command: search_args = argv[:]; name = ''; the loop.
\* The loop pops from the copy, so the caller's list stays as it was.
\* variant: search_args = argv, so the pops empty the caller's list
find_command_nocopy(cmds, argv) ==
    LET r == FindLoop(cmds, argv, argv, <<>>)
    IN  [r EXCEPT !.argv = IF r.status = "return" THEN r.rest
                           ELSE IF r.status = "Unknown command" THEN <<>>
                           ELSE @]
find_command(cmds, argv) == FindLoop(cmds, argv, argv, <<>>)

\* CommandManager.add_command
\* variant: a name already present keeps its loader
add_command_keep(cmds, name, command_class) ==
    IF name \in DOMAIN cmds THEN cmds
    ELSE setitem(cmds, name, EntryPointWrapper(name, command_class))
\* variant: the name goes through the underscore conversion of discovery
add_command_convert(cmds, name, command_class) ==
    setitem(cmds, replace_underscores(name),
            EntryPointWrapper(replace_underscores(name), command_class))
add_command(cmds, name, command_class) ==
    setitem(cmds, name, EntryPointWrapper(name, command_class))

\* CommandManager.__iter__: the (name, loader) pairs
iterate(cmds) == {<<n, cmds[n]>> : n \in DOMAIN cmds}

-----------------------------------------------------------------------------
(* Text handling of the shell: str.strip, sorted, shlex.split *)

sp == <<" ">>
help == <<"h", "e", "l", "p">>
EOF == <<"E", "O", "F">>
do_ == <<"d", "o", "_">>
help_ == <<"h", "e", "l", "p", "_">>
help_x == <<"h", "e", "l", "p", "_", "x">>
do_x == <<"d", "o", "_", "x">>

\* the characters str.strip() removes, and shlex's whitespace
Whitespace == {" ", "\t", "\n", "\r"}

RECURSIVE lstrip(_)
lstrip(s) ==
    IF s # <<>> /\ Head(s) \in Whitespace THEN lstrip(Tail(s)) ELSE s

RECURSIVE rstrip(_)
rstrip(s) ==
    IF s # <<>> /\ s[Len(s)] \in Whitespace
    THEN rstrip(SubSeq(s, 1, Len(s) - 1)) ELSE s

\* str.strip()
strip(s) == rstrip(lstrip(s))

\* code points of the characters the model's strings are made of
Ord(c) ==
    CASE c = " " -> 32  [] c = "!" -> 33  [] c = "\"" -> 34 [] c = "'" -> 39
      [] c = "-" -> 45  [] c = "?" -> 63  [] c = "E" -> 69  [] c = "F" -> 70
      [] c = "O" -> 79  [] c = "\\" -> 92 [] c = "_" -> 95  [] c = "a" -> 97
      [] c = "b" -> 98  [] c = "d" -> 100 [] c = "e" -> 101 [] c = "f" -> 102
      [] c = "h" -> 104 [] c = "l" -> 108 [] c = "o" -> 111 [] c = "p" -> 112
      [] c = "r" -> 114 [] c = "x" -> 120 [] c = "z" -> 122

\* s < t for Python strings: by code point, a proper prefix first
RECURSIVE StrLess(_, _)
StrLess(s, t) ==
    IF t = <<>> THEN FALSE
    ELSE IF s = <<>> THEN TRUE
    ELSE IF Head(s) = Head(t) THEN StrLess(Tail(s), Tail(t))
    ELSE Ord(Head(s)) < Ord(Head(t))

\* list.sort / sorted() on a list of strings
RECURSIVE insert_sorted(_, _)
insert_sorted(sortedseq, x) ==
    IF sortedseq = <<>> THEN <<x>>
    ELSE IF StrLess(x, Head(sortedseq)) THEN <<x>> \o sortedseq
    ELSE <<Head(sortedseq)>> \o insert_sorted(Tail(sortedseq), x)

RECURSIVE sorted(_)
sorted(names) ==
    IF names = <<>> THEN <<>>
    ELSE insert_sorted(sorted(Tail(names)), Head(names))

\* a dict's keys, in the unspecified order iteration yields them
RECURSIVE keys_in_some_order(_)
keys_in_some_order(S) ==
    IF S = {} THEN <<>>
    ELSE LET n == CHOOSE n \in S : TRUE
         IN  <<n>> \o keys_in_some_order(S \ {n})

\* separator.join(parts)
RECURSIVE join_with(_, _)
join_with(sep, parts) ==
    IF parts = <<>> THEN <<>>
    ELSE IF Len(parts) = 1 THEN parts[1]
    ELSE parts[1] \o sep \o join_with(sep, Tail(parts))

\* itertools.takewhile(lambda x: not x.startswith('-'), parts)
RECURSIVE takewhile_not_flag(_)
takewhile_not_flag(parts) ==
    IF parts = <<>> \/ startswith(Head(parts), <<"-">>) THEN <<>>
    ELSE <<Head(parts)>> \o takewhile_not_flag(Tail(parts))

NoError == [type |-> "none", origin |-> "none"]
Error(type, origin) == [type |-> type, origin |-> origin]

Quotes == {"'", "\""}
Escape == {"\\"}
EscapedQuotes == {"\""}

Split(tokens) == [error |-> NoError, tokens |-> tokens]
SplitError(msg) == [error |-> Error("ValueError", msg), tokens |-> <<>>]

\* shlex.shlex.read_token, called until the input ends, as shlex.split
\* sets the lexer up: posix, whitespace_split, no comment characters.
\* st is the lexer state: " " between words, "a" inside a word, a quote
\* character inside quotes, the escape character after a backslash.
RECURSIVE read_tokens(_, _, _, _, _, _, _)
read_tokens(s, i, st, escapedstate, token, quoted, out) ==
    LET eof == i > Len(s)
        c == IF eof THEN "" ELSE s[i]
        \* break out of read_token: the token is returned, unless it is
        \* empty and unquoted, which ends the iteration
        Emit(next_i, next_st) ==
            IF token = <<>> /\ ~quoted THEN Split(out)
            ELSE IF next_st = "None" THEN Split(Append(out, token))
            ELSE read_tokens(s, next_i, next_st, " ", <<>>, FALSE,
                             Append(out, token))
    IN  IF st = " " THEN
            IF eof THEN Emit(i, "None")
            ELSE IF c \in Whitespace THEN
                IF token # <<>> \/ quoted THEN Emit(i + 1, " ")
                ELSE read_tokens(s, i + 1, " ", escapedstate, token, quoted, out)
            ELSE IF c \in Escape THEN
                read_tokens(s, i + 1, c, "a", token, quoted, out)
            ELSE IF c \in Quotes THEN
                read_tokens(s, i + 1, c, escapedstate, token, quoted, out)
            ELSE read_tokens(s, i + 1, "a", escapedstate, <<c>>, quoted, out)
        ELSE IF st \in Quotes THEN
            IF eof THEN SplitError("No closing quotation")
            ELSE IF c = st THEN
                read_tokens(s, i + 1, "a", escapedstate, token, TRUE, out)
            ELSE IF c \in Escape /\ st \in EscapedQuotes THEN
                read_tokens(s, i + 1, c, st, token, TRUE, out)
            ELSE read_tokens(s, i + 1, st, escapedstate, Append(token, c), TRUE, out)
        ELSE IF st \in Escape THEN
            IF eof THEN SplitError("No escaped character")
            ELSE read_tokens(s, i + 1, escapedstate, escapedstate,
                    IF escapedstate \in Quotes /\ c # st /\ c # escapedstate
                    THEN token \o <<st, c>> ELSE Append(token, c),
                    quoted, out)
        ELSE \* st = "a"
            IF eof THEN Emit(i, "None")
            ELSE IF c \in Whitespace THEN
                IF token # <<>> \/ quoted THEN Emit(i + 1, " ")
                ELSE read_tokens(s, i + 1, " ", escapedstate, token, quoted, out)
            ELSE IF c \in Quotes THEN
                read_tokens(s, i + 1, c, escapedstate, token, quoted, out)
            ELSE IF c \in Escape THEN
                read_tokens(s, i + 1, c, "a", token, quoted, out)
            ELSE read_tokens(s, i + 1, "a", escapedstate, Append(token, c), quoted, out)

\* shlex.split(s)
shlex_split(s) == read_tokens(s, 1, " ", " ", <<>>, FALSE, <<>>)

-----------------------------------------------------------------------------
(* InteractiveApp, on top of the inherited cmd.Cmd *)

\* what a dispatch may observe of parent_app.run_subcommand: the value it
\* returns or the error it raises
ParentOutcomes ==
    { [kind |-> "return", value |-> "0"],
      [kind |-> "return", value |-> "2"],
      [kind |-> "raise", value |-> "RuntimeError"],
      [kind |-> "raise", value |-> "ValueError"] }

NotCalled == [kind |-> "not called", value |-> "none"]

\* the effect of dispatching one line: the token lists passed to
\* run_subcommand, the do_* methods run, what was written to stdout, how
\* run_subcommand answered, the error that left the dispatch, the stop flag
\* handed back to cmdloop, whether the line was the end of the input, and
\* how many times the shell went through the command manager's items
Idle == [forwarded |-> <<>>, local |-> <<>>, stdout |-> <<>>,
         parent |-> NotCalled, raised |-> NoError, stop |-> FALSE,
         eof |-> FALSE, iterations |-> 0]

\* cmd.IDENTCHARS
IdentChars ==
    {"a", "b", "c", "d", "e", "f", "g", "h", "i", "j", "k", "l", "m", "n",
     "o", "p", "q", "r", "s", "t", "u", "v", "w", "x", "y", "z",
     "A", "B", "C", "D", "E", "F", "G", "H", "I", "J", "K", "L", "M", "N",
     "O", "P", "Q", "R", "S", "T", "U", "V", "W", "X", "Y", "Z",
     "0", "1", "2", "3", "4", "5", "6", "7", "8", "9", "_"}

\* the do_* and help_* methods of InteractiveApp and cmd.Cmd
Methods == {do_ \o help, do_ \o EOF, help_ \o help}

\* hasattr(self, name), for the names the shell builds
hasattr(name) == name \in Methods

RECURSIVE ident_run(_, _)
ident_run(s, i) ==
    IF i < Len(s) /\ s[i + 1] \in IdentChars THEN ident_run(s, i + 1) ELSE i

\* cmd.Cmd.parseline; parsed is FALSE where it returns None for the command
parseline(ln) ==
    LET stripped == strip(ln)
        Parsed(l) ==
            LET i == ident_run(l, 0)
            IN  [parsed |-> TRUE, cmd |-> SubSeq(l, 1, i),
                 arg |-> strip(SubSeq(l, i + 1, Len(l))), line |-> l]
    IN  IF stripped = <<>>
        THEN [parsed |-> FALSE, cmd |-> <<>>, arg |-> <<>>, line |-> stripped]
        ELSE IF stripped[1] = "?" THEN Parsed(help \o sp \o Tail(stripped))
        ELSE IF stripped[1] = "!"
        THEN \* there is no do_shell
             [parsed |-> FALSE, cmd |-> <<>>, arg |-> <<>>, line |-> stripped]
        ELSE Parsed(stripped)

\* cmd.Cmd.print_topics: a section is written only for a non-empty list
print_topics(out, header, cmds) ==
    IF cmds # <<>>
    THEN Append(out, [kind |-> "topics", header |-> header, entries |-> cmds])
    ELSE out

\* self.stdout.write(...)
write(out, what, about) ==
    Append(out, [kind |-> "text", header |-> what, entries |-> about])

\* InteractiveApp.default: split the line, hand the tokens to the parent;
\* nothing is caught and nothing is returned
\* variant: the command word is dropped from what is forwarded
default_strip_first(eff, ln, po) ==
    LET parts == shlex_split(ln)
    IN  IF parts.error # NoError THEN [eff EXCEPT !.raised = parts.error]
        ELSE [eff EXCEPT
                !.forwarded = Append(@, IF parts.tokens = <<>> THEN <<>>
                                        ELSE Tail(parts.tokens)),
                !.parent = po,
                !.raised = IF po.kind = "raise"
                           THEN Error(po.value, "run_subcommand") ELSE @]
\* variant: the parent's value becomes the stop flag, its error is wrapped
default_return(eff, ln, po) ==
    LET parts == shlex_split(ln)
    IN  IF parts.error # NoError THEN [eff EXCEPT !.raised = parts.error]
        ELSE [eff EXCEPT
                !.forwarded = Append(@, parts.tokens),
                !.parent = po,
                !.stop = (po.kind = "return" /\ po.value # "0"),
                !.raised = IF po.kind = "raise"
                           THEN Error("CommandError", "default") ELSE @]
default(eff, ln, po) ==
    LET line_parts == shlex_split(ln)
    IN  IF line_parts.error # NoError
        THEN [eff EXCEPT !.raised = line_parts.error]
        ELSE [eff EXCEPT
                !.forwarded = Append(@, line_parts.tokens),
                !.parent = po,
                !.raised = IF po.kind = "raise"
                           THEN Error(po.value, "run_subcommand") ELSE @]

\* InteractiveApp.help_help
\* variant: the docstring of do_help is written, nothing is forwarded
help_help_local(eff, po) == [eff EXCEPT !.stdout = write(@, "doc", <<help>>)]
help_help(eff, po) == default(eff, help \o sp \o help, po)

\* what `for n, v in self.command_manager` leaves of the mapping:
\* __iter__ hands out iter(self.commands.items()), and the loop only
\* compares the names
\* variant: "help" is ignored by deleting it from the mapping
commands_after_listing_without_help(cmds) ==
    [n \in DOMAIN cmds \ {help} |-> cmds[n]]
commands_after_listing(cmds) ==
    [n \in {pair[1] : pair \in iterate(cmds)} |-> cmds[n]]

\* the mapping after the shell went through it a number of times
RECURSIVE commands_after_listings(_, _)
commands_after_listings(cmds, times) ==
    IF times = 0 THEN cmds
    ELSE commands_after_listings(commands_after_listing(cmds), times - 1)

\* InteractiveApp._plugin_command_names
\* variant: "help" is not left out
plugin_command_names_all(cmds) == sorted(keys_in_some_order(DOMAIN cmds))
plugin_command_names(cmds) ==
    sorted(keys_in_some_order({n \in DOMAIN cmds : n # help}))

RECURSIVE select_builtins(_)
select_builtins(names) ==
    IF names = <<>> THEN <<>>
    ELSE LET n == Head(names)
         IN  (IF startswith(n, do_) /\ ~startswith(n, <<"d", "o", "_", "_">>)
              THEN <<n>> ELSE <<>>) \o select_builtins(Tail(names))

\* InteractiveApp.get_names: the plugin names and the do_* attributes of
\* the class (cmd.Cmd.get_names is dir(self.__class__))
get_names(cmds) ==
    sorted(plugin_command_names(cmds)
           \o select_builtins(sorted(keys_in_some_order(Methods))))

RECURSIVE help_topics(_)
help_topics(names) ==
    IF names = <<>> THEN {}
    ELSE (IF startswith(Head(names), help_)
          THEN {SubSeq(Head(names), 6, Len(Head(names)))} ELSE {})
         \cup help_topics(Tail(names))

\* the loop of cmd.Cmd.do_help over the sorted names: the documented
\* commands, the topics left over, and whether getattr(self, name) failed
RECURSIVE documented(_, _, _, _)
documented(names, prevname, cmds_doc, topics) ==
    IF names = <<>>
    THEN [error |-> NoError, cmds_doc |-> cmds_doc, topics |-> topics]
    ELSE LET name == Head(names)
             cmd == SubSeq(name, 4, Len(name))
         IN  IF ~startswith(name, do_) \/ name = prevname
             THEN documented(Tail(names), prevname, cmds_doc, topics)
             ELSE IF cmd \in topics
             THEN documented(Tail(names), name, Append(cmds_doc, cmd),
                             topics \ {cmd})
             ELSE IF hasattr(name)
             THEN \* do_help and do_EOF both carry a docstring
                  documented(Tail(names), name, Append(cmds_doc, cmd), topics)
             ELSE [error |-> Error("AttributeError", "getattr"),
                   cmds_doc |-> cmds_doc, topics |-> topics]

\* cmd.Cmd.do_help, with get_names and help_help as InteractiveApp has them
Cmd_do_help(eff, arg, cmds, po) ==
    IF arg # <<>>
    THEN IF hasattr(help_ \o arg) THEN help_help(eff, po)
         ELSE IF hasattr(do_ \o arg)
         THEN [eff EXCEPT !.stdout = write(@, "doc", <<arg>>)]
         ELSE [eff EXCEPT !.stdout = write(@, "nohelp", <<arg>>)]
    ELSE LET names == get_names(cmds)
             d == documented(sorted(names), <<>>, <<>>, help_topics(names))
         IN  IF d.error # NoError
             THEN [eff EXCEPT !.raised = d.error, !.iterations = @ + 1]
             ELSE [eff EXCEPT
                    !.iterations = @ + 1,
                    !.stdout =
                    print_topics(
                      print_topics(
                        print_topics(write(@, "doc_leader", <<>>),
                                     "doc_header", d.cmds_doc),
                        "misc_header", sorted(keys_in_some_order(d.topics))),
                      "undoc_header", <<>>)]

\* InteractiveApp.do_help
do_help(eff, arg, cmds, po) ==
    IF arg # <<>>
    THEN LET arg_parts == shlex_split(arg)
             method_name ==
                 join_with(<<"_">>,
                     <<<<"d", "o">>>> \o takewhile_not_flag(arg_parts.tokens))
         IN  IF arg_parts.error # NoError
             THEN [eff EXCEPT !.raised = arg_parts.error]
             ELSE IF hasattr(method_name) THEN Cmd_do_help(eff, arg, cmds, po)
             ELSE default(eff, help \o sp \o arg, po)
    ELSE LET e == Cmd_do_help(eff, arg, cmds, po)
         IN  IF e.raised # NoError THEN e
             ELSE [e EXCEPT
                    !.iterations = @ + 1,
                    !.stdout =
                    print_topics(@, "app_cmd_header", plugin_command_names(cmds))]

\* n[3:] if n.startswith('do_') else n
command_word(n) == IF startswith(n, do_) THEN SubSeq(n, 4, Len(n)) ELSE n

\* [n for n in names if n.startswith(text)]
RECURSIVE starting_with(_, _)
starting_with(names, text) ==
    IF names = <<>> THEN <<>>
    ELSE (IF startswith(Head(names), text) THEN <<Head(names)>> ELSE <<>>)
         \o starting_with(Tail(names), text)

\* InteractiveApp.completedefault
completedefault(text, cmds) ==
    LET completions == get_names(cmds)
    IN  IF text # <<>> THEN starting_with(completions, text) ELSE completions

\* InteractiveApp.completenames
completenames(text, cmds) ==
    LET names == get_names(cmds)
    IN  starting_with([i \in 1..Len(names) |-> command_word(names[i])], text)

\* no completion request is being answered
NoCompletion == [entry |-> "none", text |-> <<>>, candidates |-> <<>>]

\* InteractiveApp.do_EOF
\* variant: nothing is returned
do_EOF_none(eff, arg) == eff
do_EOF(eff, arg) == [eff EXCEPT !.stop = TRUE]

\* cmd.Cmd.onecmd, with cmd.Cmd.emptyline repeating the last command.
\* Yields the effect and the new value of lastcmd.
RECURSIVE onecmd(_, _, _, _, _)
onecmd(eff, ln, last, cmds, po) ==
    LET p == parseline(ln)
        last2 == IF p.line = EOF THEN <<>> ELSE p.line
        name == do_ \o p.cmd
    IN  IF p.line = <<>>
        THEN IF last # <<>> THEN onecmd(eff, last, last, cmds, po)
             ELSE [eff |-> eff, lastcmd |-> last]
        ELSE IF ~p.parsed
        THEN [eff |-> default(eff, p.line, po), lastcmd |-> last]
        ELSE IF p.cmd = <<>> \/ ~hasattr(name)
        THEN [eff |-> default(eff, p.line, po), lastcmd |-> last2]
        ELSE IF name = do_ \o help
        THEN [eff |-> do_help([eff EXCEPT !.local = Append(@, name)],
                              p.arg, cmds, po),
              lastcmd |-> last2]
        ELSE [eff |-> do_EOF([eff EXCEPT !.local = Append(@, name)], p.arg),
              lastcmd |-> last2]

-----------------------------------------------------------------------------
(* The registry as a state machine *)

NoCall == [op |-> "none"]

Init ==
    /\ \E arg \in ConstructorArgs :
        /\ convert_underscores = convert_underscores_parameter(arg)
        /\ call = [op |-> "__init__", convert_underscores |-> arg,
                   loaded |-> <<>>]
    /\ entry_points \in Discoveries
    /\ commands = CommandManagerInit(entry_points, convert_underscores)
    /\ last_add = <<>>
    /\ state = "Reading"
    /\ line = <<>>
    /\ lastcmd = <<>>
    /\ shell = Idle
    /\ completion = NoCompletion

\* the application calls add_command
AddCommand ==
    /\ call = NoCall
    /\ \E name \in AddNames, command_class \in Classes :
        /\ commands' = add_command(commands, name, command_class)
        /\ last_add' = setitem(last_add, name, command_class)
        /\ call' = [op |-> "add_command", name |-> name,
                    command_class |-> command_class,
                    before |-> commands,
                    loaded |-> <<>>,
                    replaced |-> IF name \in DOMAIN commands
                                 THEN commands[name] ELSE NoLoader]
    /\ UNCHANGED <<convert_underscores, entry_points>>
    /\ UNCHANGED shell_vars

\* the application calls find_command
FindCommand ==
    /\ call = NoCall
    /\ \E argv \in Argvs :
        LET r == find_command(commands, argv)
        IN  /\ commands' = r.commands
            /\ call' = [op |-> "find_command", before |-> commands,
                        argv |-> argv, result |-> r]
    /\ UNCHANGED <<convert_underscores, entry_points, last_add>>
    /\ UNCHANGED shell_vars

\* the application iterates over the manager
Iterate ==
    /\ call = NoCall
    /\ call' = [op |-> "iterate", items |-> iterate(commands),
                loaded |-> <<>>]
    /\ UNCHANGED <<commands, convert_underscores, entry_points, last_add>>
    /\ UNCHANGED shell_vars

\* the caller has taken the result and goes on
Continue ==
    /\ call # NoCall
    /\ call' = NoCall
    /\ UNCHANGED <<commands, convert_underscores, entry_points, last_add>>
    /\ UNCHANGED shell_vars

Next == AddCommand \/ FindCommand \/ Iterate \/ Continue

Spec == Init /\ [][Next]_vars

-----------------------------------------------------------------------------
(* The interactive shell as a state machine: cmd.Cmd.cmdloop *)

\* the plugin index of an application run interactively, in the order the
\* index lists its entries
ShellEntryPoints ==
    << [kind |-> "EntryPoint", name |-> help, command_class |-> Class("HelpCommand")],
       [kind |-> "EntryPoint", name |-> foo, command_class |-> Class("P")],
       [kind |-> "EntryPoint", name |-> bar, command_class |-> Class("Q")],
       [kind |-> "EntryPoint", name |-> help_x, command_class |-> Class("R")],
       [kind |-> "EntryPoint", name |-> do_x, command_class |-> Class("S")] >>

\* the entries of a list at the chosen positions, in list order
RECURSIVE pick(_, _, _)
pick(list, positions, i) ==
    IF i > Len(list) THEN <<>>
    ELSE (IF i \in positions THEN <<list[i]>> ELSE <<>>)
         \o pick(list, positions, i + 1)

\* the namespaces an application may be installed with: any part of the index
ShellDiscoveries ==
    {pick(ShellEntryPoints, S, 1) : S \in SUBSET (1..Len(ShellEntryPoints))}

quote == <<"'">>
backslash == <<"\\">>

\* the lines a user may type
Lines ==
    { empty,
      foo,
      foo \o sp \o bar,
      sp \o foo \o sp,
      foo \o sp \o quote \o bar \o sp \o baz \o quote,
      foo \o sp \o quote \o bar,
      foo \o backslash \o sp,
      dash_f,
      <<"!">> \o foo,
      <<"?">> \o foo,
      help,
      help \o sp \o foo,
      help \o sp \o help,
      help \o sp \o EOF,
      help \o sp \o EOF \o sp \o foo,
      help \o sp \o EOF \o sp \o dash_f,
      help \o sp \o quote \o foo,
      help \o dash_f,
      EOF,
      EOF \o sp \o foo }

\* what may stand before the cursor when the user asks for completion
CompletionTexts ==
    {empty, <<"h">>, <<"f">>, <<"E">>, <<"x">>, <<"d", "o">>, help, foo, do_x}

ShellInit ==
    /\ convert_underscores \in BOOLEAN
    /\ entry_points \in ShellDiscoveries
    /\ commands = CommandManagerInit(entry_points, convert_underscores)
    /\ last_add = <<>>
    /\ call = NoCall
    /\ state = "Reading"
    /\ line = <<>>
    /\ lastcmd = <<>>
    /\ shell = Idle
    /\ completion = NoCompletion

\* cmdloop reads a line: line = input(self.prompt)
ReadLine ==
    /\ state = "Reading"
    /\ completion = NoCompletion
    /\ \E ln \in Lines :
        /\ line' = ln
        /\ shell' = Idle
    /\ state' = "Dispatching"
    /\ UNCHANGED <<lastcmd, completion>>
    /\ UNCHANGED registry_vars

\* cmdloop reaches the end of the input: except EOFError: line = 'EOF'
EndOfInput ==
    /\ state = "Reading"
    /\ completion = NoCompletion
    /\ line' = EOF
    /\ shell' = [Idle EXCEPT !.eof = TRUE]
    /\ state' = "Dispatching"
    /\ UNCHANGED <<lastcmd, completion>>
    /\ UNCHANGED registry_vars

\* where cmdloop is after stop = self.onecmd(line): an error leaves the
\* loop (only a finally clause stands in its way), a true stop flag ends
\* it, anything else goes round again
\* variant: an error is swallowed and the loop goes round again
after_dispatch_resume(eff) ==
    IF eff.stop THEN "Done" ELSE "Reading"
after_dispatch(eff) ==
    IF eff.raised # NoError THEN "Aborted"
    ELSE IF eff.stop THEN "Done"
    ELSE "Reading"

\* cmdloop dispatches the line: line = self.precmd(line);
\* stop = self.onecmd(line); stop = self.postcmd(stop, line)
Dispatch ==
    /\ state = "Dispatching"
    /\ \E po \in ParentOutcomes :
        LET r == onecmd(shell, line, lastcmd, commands, po)
        IN  /\ shell' = r.eff
            /\ lastcmd' = r.lastcmd
            /\ state' = after_dispatch(r.eff)
            /\ commands' = commands_after_listings(commands, r.eff.iterations)
    /\ UNCHANGED <<line, completion>>
    /\ UNCHANGED <<convert_underscores, entry_points, last_add, call>>

\* while cmdloop waits for a line, the line editor asks for candidates:
\* cmd.Cmd.complete calls completenames for the command word and
\* completedefault for a later word
Complete ==
    /\ state = "Reading"
    /\ completion = NoCompletion
    /\ \E text \in CompletionTexts :
        \/ completion' = [entry |-> "completenames", text |-> text,
                          candidates |-> completenames(text, commands)]
        \/ completion' = [entry |-> "completedefault", text |-> text,
                          candidates |-> completedefault(text, commands)]
    /\ commands' = commands_after_listing(commands)
    /\ UNCHANGED <<state, line, lastcmd, shell>>
    /\ UNCHANGED <<convert_underscores, entry_points, last_add, call>>

\* the line editor has taken the candidates and goes on reading
Completed ==
    /\ completion # NoCompletion
    /\ completion' = NoCompletion
    /\ UNCHANGED <<state, line, lastcmd, shell>>
    /\ UNCHANGED registry_vars

ShellNext == ReadLine \/ EndOfInput \/ Dispatch \/ Complete \/ Completed

SpecShell == ShellInit /\ [][ShellNext]_vars

-----------------------------------------------------------------------------
(* Properties of find_command and add_command *)

Found == call.op = "find_command" /\ call.result.status = "return"
IsFlag(token) == startswith(token, <<"-">>)
Registered(cmds, tokens) == ScanName(tokens) \in DOMAIN cmds

\* C1: shortest registered prefix wins.  Whenever find_command returns a
\* match, the matched name is the name accumulated over the first k tokens
\* for the least k >= 1 at which the accumulated name is a registered key,
\* and the remaining arguments are the tokens after those k.  In particular
\* with "foo" and "foo bar" both registered, an argv starting "foo", "bar"
\* matches "foo" and leaves everything after "foo".
C1_ShortestPrefixWins ==
    Found =>
        /\ \E k \in 1..Len(call.argv) :
            /\ call.result.name = ScanName(Prefix(call.argv, k))
            /\ call.result.name \in DOMAIN call.before
            /\ call.result.rest = Suffix(call.argv, k)
            /\ \A j \in 1..(k - 1) : ~Registered(call.before, Prefix(call.argv, j))
        /\ ( /\ {foo, foo_sp_bar} \subseteq DOMAIN call.before
             /\ Len(call.argv) >= 2
             /\ call.argv[1] = foo
             /\ call.argv[2] = bar )
           => /\ call.result.name = foo
              /\ call.result.rest = Tail(call.argv)

\* "foo" and "foo bar" registered, ["foo","bar","baz"] resolved to "foo"
C1_Witness ==
    /\ Found
    /\ {foo, foo_sp_bar} \subseteq DOMAIN call.before
    /\ call.argv = <<foo, bar, baz>>
    /\ call.result.name = foo
    /\ call.result.rest = <<bar, baz>>

\* C2: a successful find_command partitions argv.  There is k >= 1 such
\* that the matched name is the first k tokens joined by single spaces and
\* the remaining arguments are the tokens after the first k.
C2_MatchPartitionsArgv ==
    Found =>
        \E k \in 1..Len(call.argv) :
            /\ call.result.name = join(Prefix(call.argv, k))
            /\ call.result.rest = Suffix(call.argv, k)

\* the same partition, for an argv that does not start with an empty token
C2_PartitionWithoutLeadingEmptyToken ==
    (Found /\ call.argv[1] # empty) =>
        \E k \in 1..Len(call.argv) :
            /\ call.result.name = join(Prefix(call.argv, k))
            /\ call.result.rest = Suffix(call.argv, k)

\* C3: a flag reached before any match is an InvalidCommand.  If the token
\* at some position i starts with "-" and no shorter non-empty prefix
\* accumulates to a registered name, find_command raises the "Invalid
\* command" error: it neither returns a match nor raises "Unknown command".
C3_FlagBeforeMatchIsInvalid ==
    ( /\ call.op = "find_command"
      /\ \E i \in 1..Len(call.argv) :
            /\ IsFlag(call.argv[i])
            /\ \A j \in 1..(i - 1) : ~Registered(call.before, Prefix(call.argv, j)) )
    => /\ call.result.status = "Invalid command"
       /\ call.result.factory = NoClass
       /\ IsFlag(call.result.arg)

\* a flag in second position, after an unregistered word, on a registry
\* that is not empty
C3_Witness ==
    /\ call.op = "find_command"
    /\ DOMAIN call.before # {}
    /\ Len(call.argv) >= 2
    /\ ~IsFlag(call.argv[1])
    /\ IsFlag(call.argv[2])
    /\ call.result.status = "Invalid command"

\* C4: an argv that is empty, or that holds no flag and no leading run of
\* which accumulates to a registered name, fails with the "Unknown command"
\* error, and the error reports the whole argv as it was passed.
C4_NoMatchIsUnknownWithWholeArgv ==
    ( /\ call.op = "find_command"
      /\ \/ call.argv = <<>>
         \/ /\ \A i \in 1..Len(call.argv) : ~IsFlag(call.argv[i])
            /\ \A k \in 1..Len(call.argv) :
                    ~Registered(call.before, Prefix(call.argv, k)) )
    => /\ call.result.status = "Unknown command"
       /\ call.result.factory = NoClass
       /\ call.result.arg = call.argv

\* three unmatched words against a registry that is not empty
C4_Witness ==
    /\ call.op = "find_command"
    /\ DOMAIN call.before # {}
    /\ Len(call.argv) = 3
    /\ call.result.status = "Unknown command"
    /\ call.result.arg = call.argv

\* C5: find_command is read-only.  However the call ends, the mapping after
\* it is the mapping before it and the caller's argv list is unchanged.
C5_FindCommandReadOnly ==
    call.op = "find_command" =>
        /\ commands = call.before
        /\ call.result.commands = call.before
        /\ call.result.argv = call.argv

\* a match that consumed tokens, against a registry with two names
C5_Witness ==
    /\ Found
    /\ Cardinality(DOMAIN call.before) >= 2
    /\ Len(call.result.rest) < Len(call.argv)
    /\ commands = call.before

\* C6: re-registration overwrites.  The mapping holds one loader per name;
\* for every name add_command was called with, it is the wrapper of the
\* class of the latest call (also over a discovered entry point), and
\* resolving that name as a single token yields that class.
C6_LatestAddWins ==
    /\ \A n \in DOMAIN last_add :
        /\ n \in DOMAIN commands
        /\ commands[n] = EntryPointWrapper(n, last_add[n])
    /\ call.op = "add_command" =>
        /\ commands[call.name] = EntryPointWrapper(call.name, call.command_class)
        /\ last_add[call.name] = call.command_class
    /\ ( /\ call.op = "find_command"
         /\ Len(call.argv) = 1
         /\ call.argv[1] \in DOMAIN last_add )
       => /\ call.result.status = "return"
          /\ call.result.factory = last_add[call.argv[1]]
          /\ call.result.loaded =
                <<EntryPointWrapper(call.argv[1], last_add[call.argv[1]])>>

\* add_command("foo", A) has just been replaced by add_command("foo", B)
C6_Witness ==
    /\ call.op = "add_command"
    /\ call.name = foo
    /\ call.replaced = EntryPointWrapper(foo, Class("A"))
    /\ call.command_class = Class("B")
    /\ commands[foo] = EntryPointWrapper(foo, Class("B"))

-----------------------------------------------------------------------------
(* Properties of the interactive shell *)

\* a line has been dispatched and cmdloop has moved on
Dispatched == state # "Dispatching"

\* the line has a command word (the leading run of identifier characters,
\* or none for a line that starts with another character) and that word
\* is not the name of a do_* method
NotBuiltinLine(ln) ==
    LET p == parseline(ln)
    IN  /\ p.line # <<>>
        /\ ~p.parsed \/ ~hasattr(do_ \o p.cmd)

\* the line is the builtin help with nothing after it
HelpNoArgLine(ln) ==
    LET p == parseline(ln)
    IN  p.parsed /\ p.cmd = help /\ p.arg = <<>>

\* C7 as stated: every input line whose command word is not a local
\* builtin causes exactly one call of run_subcommand, with the word split
\* of the entire line, and no call of a local builtin.
C7_EveryOtherLineForwardedOnce ==
    (Dispatched /\ NotBuiltinLine(line)) =>
        /\ shlex_split(line).error = NoError
        /\ shell.forwarded = <<shlex_split(line).tokens>>
        /\ shell.local = <<>>

\* C7, amended: such a line is forwarded exactly once, as the word split of
\* the line stripped of surrounding whitespace, when that split succeeds;
\* when it fails (an unbalanced quote, a dangling backslash) the ValueError
\* leaves the dispatch and run_subcommand is not called.  No local builtin
\* runs either way.
C7_SplittableLineForwardedOnce ==
    (Dispatched /\ NotBuiltinLine(line)) =>
        LET parts == shlex_split(strip(line))
        IN  /\ shell.local = <<>>
            /\ parts.error = NoError =>
                /\ shell.forwarded = <<parts.tokens>>
                /\ shell.parent # NotCalled
            /\ parts.error # NoError =>
                /\ shell.forwarded = <<>>
                /\ shell.parent = NotCalled
                /\ shell.raised = parts.error

\* a line with a quoted argument went to the parent as two tokens
C7_Witness ==
    /\ Dispatched
    /\ line = foo \o sp \o quote \o bar \o sp \o baz \o quote
    /\ shell.forwarded = << <<foo, bar \o sp \o baz>> >>
    /\ shell.local = <<>>

DispatchRaised == Dispatched /\ shell.parent.kind = "raise"

C9_ParentErrorPropagatesUnchanged ==
    Dispatched =>
        /\ shell.parent.kind = "raise" =>
            shell.raised = Error(shell.parent.value, "run_subcommand")
        /\ shell.parent.kind = "return" =>
            /\ shell.raised = NoError
            /\ ~shell.stop
            /\ state = "Reading"

\* the parent raised a ValueError and that is what came out
C9_Witness ==
    /\ Dispatched
    /\ line = foo
    /\ shell.parent = [kind |-> "raise", value |-> "ValueError"]
    /\ shell.raised = Error("ValueError", "run_subcommand")

IsTopics(w) == w.kind = "topics"
Sections == SelectSeq(shell.stdout, IsTopics)
OtherNames == {n \in DOMAIN commands : n # help}
StrictlySorted(names) ==
    \A i, j \in 1..Len(names) : i < j => StrLess(names[i], names[j])
ListsExactly(names, S) ==
    /\ Len(names) = Cardinality(S)
    /\ {names[i] : i \in 1..Len(names)} = S

\* C10 as stated: help with no argument prints the builtins' section and
\* then exactly one second section, titled on its own, listing exactly the
\* registry's names other than "help", sorted; nothing is forwarded.
C10_HelpPrintsTwoSections ==
    (Dispatched /\ HelpNoArgLine(line)) =>
        /\ Len(Sections) = 2
        /\ Sections[1].header = "doc_header"
        /\ Sections[2].header = "app_cmd_header"
        /\ ListsExactly(Sections[2].entries, OtherNames)
        /\ StrictlySorted(Sections[2].entries)
        /\ shell.forwarded = <<>>

\* C10, amended: help with no argument forwards nothing.  Unless the
\* inherited listing fails (AttributeError, for a registry name do_<w>
\* that is no method and has no help_<w> beside it), the builtins' section
\* comes first and lists EOF and help; the application section is printed
\* exactly once, last, under its own title, with exactly the registry's
\* names other than "help" in sorted order, when there is such a name,
\* and is not printed when there is none; the only section that can come
\* between the two is the miscellaneous topics, and only for a registry
\* holding a name that starts with help_.
C10_HelpListsBuiltinsThenOtherNames ==
    (Dispatched /\ HelpNoArgLine(line)) =>
        /\ shell.forwarded = <<>>
        /\ shell.parent = NotCalled
        /\ shell.local = <<do_ \o help>>
        /\ shell.raised # NoError <=>
            \E n \in DOMAIN commands :
                /\ startswith(n, do_)
                /\ ~hasattr(n)
                /\ help_ \o SubSeq(n, 4, Len(n)) \notin DOMAIN commands
        /\ shell.raised # NoError =>
            /\ shell.raised = Error("AttributeError", "getattr")
            /\ Sections = <<>>
        /\ shell.raised = NoError =>
            LET n == Len(Sections)
                last == Sections[n]
                body == IF OtherNames = {} THEN n ELSE n - 1
            IN  /\ n >= 1
                /\ Sections[1].header = "doc_header"
                /\ {EOF, help} \subseteq
                     {Sections[1].entries[i] : i \in 1..Len(Sections[1].entries)}
                /\ OtherNames # {} =>
                    /\ n >= 2
                    /\ last.header = "app_cmd_header"
                    /\ ListsExactly(last.entries, OtherNames)
                    /\ StrictlySorted(last.entries)
                /\ \A i \in 2..body :
                    /\ Sections[i].header = "misc_header"
                    /\ \E m \in DOMAIN commands : startswith(m, help_)
                /\ body <= 2

\* with help, foo and bar registered, help listed EOF and help, then bar
\* and foo
C10_Witness ==
    /\ Dispatched
    /\ line = help
    /\ DOMAIN commands = {help, foo, bar}
    /\ Len(Sections) = 2
    /\ Sections[1].entries = <<EOF, help>>
    /\ Sections[2] = [kind |-> "topics", header |-> "app_cmd_header",
                      entries |-> <<bar, foo>>]

\* the line is the builtin help with something after it
HelpArgLine(ln) ==
    LET p == parseline(ln)
    IN  p.parsed /\ p.cmd = help /\ p.arg # <<>>

\* what was typed after the command word help
HelpArg == parseline(line).arg

\* the docstring of do_<name> was written to stdout and nothing else
ShownLocally(name) ==
    shell.stdout = <<[kind |-> "text", header |-> "doc", entries |-> <<name>>]>>

\* C11 as stated: help <name> for a <name> that is a local builtin (help,
\* EOF) shows the help text locally and does not call run_subcommand; for
\* every other <name> the tokens of the line "help <name>" are forwarded
\* exactly once.
C11_HelpNameLocalOrForwarded ==
    (Dispatched /\ HelpArgLine(line)) =>
        IF hasattr(do_ \o HelpArg)
        THEN /\ ShownLocally(HelpArg)
             /\ shell.forwarded = <<>>
             /\ shell.parent = NotCalled
        ELSE /\ shlex_split(help \o sp \o HelpArg).error = NoError
             /\ shell.forwarded = <<shlex_split(help \o sp \o HelpArg).tokens>>

\* C11, amended: do_help runs and nothing else local.  With <name> the
\* text after help: if it cannot be split, the ValueError leaves the
\* dispatch and nothing is forwarded or written; if its words before the
\* first option, joined by "_" after "do", do not name a method, the
\* tokens of "help <name>" are forwarded exactly once and nothing is
\* written; if they do, then for <name> = help the tokens ["help", "help"]
\* are forwarded exactly once (help_help), for <name> = EOF the docstring
\* is written and run_subcommand is not called, and for any other text
\* (a builtin followed by an option, or quoted) the "no help" message is
\* written and run_subcommand is not called.
C11_HelpNameDecided ==
    (Dispatched /\ HelpArgLine(line)) =>
        LET parts == shlex_split(HelpArg)
            builtin == hasattr(join_with(<<"_">>,
                          <<<<"d", "o">>>> \o takewhile_not_flag(parts.tokens)))
            literal == shlex_split(help \o sp \o HelpArg)
        IN  /\ shell.local = <<do_ \o help>>
            /\ parts.error # NoError =>
                /\ shell.raised = parts.error
                /\ shell.forwarded = <<>>
                /\ shell.parent = NotCalled
                /\ shell.stdout = <<>>
            /\ (parts.error = NoError /\ ~builtin) =>
                /\ literal.error = NoError
                /\ shell.forwarded = <<literal.tokens>>
                /\ literal.tokens = <<help>> \o parts.tokens
                /\ shell.parent # NotCalled
                /\ shell.stdout = <<>>
            /\ (parts.error = NoError /\ builtin /\ HelpArg = help) =>
                /\ shell.forwarded = << <<help, help>> >>
                /\ shell.parent # NotCalled
                /\ shell.stdout = <<>>
            /\ (parts.error = NoError /\ builtin /\ HelpArg = EOF) =>
                /\ ShownLocally(EOF)
                /\ shell.forwarded = <<>>
                /\ shell.parent = NotCalled
            /\ (parts.error = NoError /\ builtin /\ HelpArg \notin {help, EOF}) =>
                /\ shell.stdout = <<[kind |-> "text", header |-> "nohelp",
                                    entries |-> <<HelpArg>>]>>
                /\ shell.forwarded = <<>>
                /\ shell.parent = NotCalled

\* help help went to the parent as ["help", "help"]; nothing was written
C11_Witness ==
    /\ Dispatched
    /\ line = help \o sp \o help
    /\ shell.local = <<do_ \o help>>
    /\ shell.forwarded = << <<help, help>> >>
    /\ shell.stdout = <<>>

\* the candidates as a set
Candidates == {completion.candidates[i] : i \in 1..Len(completion.candidates)}

\* the names of the local builtins, as the user types them
BuiltinCommandNames ==
    {SubSeq(m, 4, Len(m)) :
        m \in {n \in Methods : startswith(n, do_)
                               /\ ~startswith(n, <<"d", "o", "_", "_">>)}}

\* C12: for every typed prefix, each completion entry point offers exactly
\* the names among the registry's command names and the local builtins'
\* command names (help, EOF) that start with the prefix; a builtin is
\* offered under its command name, never under its method name.
C12_CompletionOffersCommandNames ==
    completion # NoCompletion =>
        /\ Candidates =
             {n \in DOMAIN commands \cup BuiltinCommandNames :
                 startswith(n, completion.text)}
        /\ Candidates \cap {do_ \o help, do_ \o EOF} = {}

\* what completenames alone offers: the same set, when the registry holds
\* no name that starts with do_
C12_CompletenamesOffersCommandNames ==
    ( /\ completion.entry = "completenames"
      /\ \A n \in DOMAIN commands : ~startswith(n, do_) )
    => Candidates =
         {n \in DOMAIN commands \cup BuiltinCommandNames :
             startswith(n, completion.text)}

\* the line is the exit signal: its command word is EOF
ExitLine(ln) ==
    LET p == parseline(ln)
    IN  p.parsed /\ p.cmd = EOF

\* C13: the loop reaches Done when, and only when, it gets the exit signal
\* or the end of the input.  Done is only ever entered by do_EOF setting
\* the stop flag, for a line whose command word is EOF or for the end of
\* the input; a dispatch that returns normally for any other line leaves
\* the loop in Reading; once the end of the input is met, the dispatch
\* that follows ends in Done, whatever the parent would do; and no step
\* can be taken from Done: no line is read, nothing is dispatched, no
\* completion is asked for.
C13_DoneOnExitOrEndOfInputOnly ==
    /\ state = "Done" =>
        /\ shell.eof \/ ExitLine(line)
        /\ shell.stop
        /\ shell.local = <<do_ \o EOF>>
        /\ shell.forwarded = <<>>
        /\ ~ENABLED ShellNext
    /\ (Dispatched /\ shell.raised = NoError /\ ~shell.eof /\ ~ExitLine(line))
        => state = "Reading"
    /\ (Dispatched /\ (shell.eof \/ ExitLine(line))) => state = "Done"
    /\ (state = "Dispatching" /\ shell.eof) =>
        \A po \in ParentOutcomes :
            after_dispatch(onecmd(shell, line, lastcmd, commands, po).eff) = "Done"

\* the input ended, do_EOF ran for it and the loop is Done for good
C13_Witness ==
    /\ state = "Done"
    /\ shell.eof
    /\ line = EOF
    /\ shell.local = <<do_ \o EOF>>
    /\ shell.parent = NotCalled
    /\ ~ENABLED ShellNext

-----------------------------------------------------------------------------
(* Properties of discovery, registration and loading *)

\* the constructor has just returned
Constructed == call.op = "__init__"

\* no add_command yet: the mapping is as discovery left it
AsDiscovered == last_add = <<>>

\* stored is raw with every "_" turned into a space when convert is set,
\* and raw itself when it is not
IsCanonicalOf(stored, raw, convert) ==
    /\ Len(stored) = Len(raw)
    /\ \A i \in 1..Len(raw) :
        stored[i] = IF convert /\ raw[i] = "_" THEN " " ELSE raw[i]

Discovered(raw) == \E i \in 1..Len(entry_points) : entry_points[i].name = raw

\* C14: discovery-time canonical names.  After construction the mapping's
\* keys are exactly the discovered raw names, each with every "_" turned
\* into a space when convert_underscores is true and unchanged when it is
\* false, each key holding its entry point; convert_underscores is true
\* when the constructor is called without it.  A discovered "foo_bar" is
\* "foo bar" under true, resolved by ["foo", "bar"] (where "foo" itself is
\* not registered) and not by ["foo_bar"]; under false it is "foo_bar",
\* resolved by ["foo_bar"], never by ["foo", "bar"], and only by an argv
\* whose first non-empty token is "foo_bar".
C14_DiscoveryCanonicalNames ==
    /\ Constructed =>
        /\ convert_underscores = (call.convert_underscores # "False")
        /\ Cardinality(DOMAIN commands) = Len(entry_points)
        /\ \A i \in 1..Len(entry_points) :
            \E n \in DOMAIN commands :
                /\ IsCanonicalOf(n, entry_points[i].name, convert_underscores)
                /\ commands[n] = entry_points[i]
        /\ \A n \in DOMAIN commands :
            \E i \in 1..Len(entry_points) :
                IsCanonicalOf(n, entry_points[i].name, convert_underscores)
    /\ (call.op = "find_command" /\ AsDiscovered /\ Discovered(foo_bar)) =>
        /\ convert_underscores =>
            /\ foo_sp_bar \in DOMAIN call.before
            /\ foo_bar \notin DOMAIN call.before
            /\ (call.argv = <<foo, bar>> /\ foo \notin DOMAIN call.before) =>
                /\ call.result.status = "return"
                /\ call.result.name = foo_sp_bar
                /\ call.result.factory = Class("Q")
                /\ call.result.rest = <<>>
            /\ call.argv = <<foo_bar>> =>
                call.result.status = "Unknown command"
        /\ ~convert_underscores =>
            /\ foo_bar \in DOMAIN call.before
            /\ foo_sp_bar \notin DOMAIN call.before
            /\ call.argv = <<foo_bar>> =>
                /\ call.result.status = "return"
                /\ call.result.name = foo_bar
                /\ call.result.factory = Class("Q")
            /\ call.argv = <<foo, bar>> =>
                /\ call.result.name # foo_bar
                /\ foo \notin DOMAIN call.before =>
                    call.result.status = "Unknown command"
            /\ (Found /\ call.result.name = foo_bar) =>
                \E k \in 1..Len(call.argv) :
                    /\ call.argv[k] = foo_bar
                    /\ \A j \in 1..(k - 1) : call.argv[j] = empty
                    /\ call.result.rest = Suffix(call.argv, k)

\* discovery with conversion stored "foo_bar" as "foo bar", and
\* ["foo", "bar"] resolved it
C14_Witness ==
    /\ Found
    /\ AsDiscovered
    /\ convert_underscores
    /\ Discovered(foo_bar)
    /\ Discovered(foo_bar_baz)
    /\ call.argv = <<foo, bar>>
    /\ call.result.name = foo_sp_bar
    /\ call.result.factory = Class("Q")

\* C15: names registered at runtime are stored verbatim.  For either
\* setting of convert_underscores, add_command(name, C) leaves the mapping
\* as it was except that exactly name, character for character, now holds
\* the wrapper of C.  After add_command("foo_bar", C) on an otherwise
\* empty registry, ["foo_bar"] resolves to C under the name "foo_bar" and
\* ["foo", "bar"] fails with "Unknown command".
C15_AddCommandStoresVerbatim ==
    /\ call.op = "add_command" =>
        /\ DOMAIN commands = DOMAIN call.before \cup {call.name}
        /\ commands[call.name] = EntryPointWrapper(call.name, call.command_class)
        /\ \A n \in DOMAIN call.before \ {call.name} : commands[n] = call.before[n]
    /\ ( /\ call.op = "find_command"
         /\ DOMAIN call.before = {foo_bar}
         /\ foo_bar \in DOMAIN last_add ) =>
        /\ call.argv = <<foo_bar>> =>
            /\ call.result.status = "return"
            /\ call.result.name = foo_bar
            /\ call.result.factory = last_add[foo_bar]
            /\ call.result.rest = <<>>
        /\ call.argv = <<foo, bar>> =>
            /\ call.result.status = "Unknown command"
            /\ call.result.arg = <<foo, bar>>

\* with conversion on, "foo_bar" was added to an empty registry and
\* ["foo", "bar"] was then not found
C15_Witness ==
    /\ call.op = "find_command"
    /\ convert_underscores
    /\ entry_points = <<>>
    /\ DOMAIN call.before = {foo_bar}
    /\ foo_bar \in DOMAIN last_add
    /\ call.argv = <<foo, bar>>
    /\ call.result.status = "Unknown command"

\* the loader __iter__ yields for the matched name
YieldedLoader ==
    CHOOSE l \in {pair[2] : pair \in {q \in iterate(call.before) :
                                        q[1] = call.result.name}} : TRUE

\* C16 as stated: on a successful match the first component of the result
\* is the loader stored under the matched name, the value iteration
\* yields for that name.
C16_ResultIsStoredLoader ==
    Found =>
        /\ call.result.factory = call.before[call.result.name]
        /\ call.result.factory = YieldedLoader

\* C16, amended: on a successful match the first component of the result
\* is what load() returns for the loader stored under the matched name
\* (the loader iteration yields for that name): the command class the
\* plugin entry point resolves to, or the class add_command was given.
\* It is not the loader.
C16_ResultIsLoadedClass ==
    Found =>
        /\ <<call.result.name, call.before[call.result.name]>> \in iterate(call.before)
        /\ call.result.factory = YieldedLoader.command_class
        /\ call.result.factory.kind = "class"
        /\ call.result.factory # YieldedLoader
        /\ YieldedLoader.kind \in {"EntryPoint", "EntryPointWrapper"}
        /\ call.result.loaded = <<YieldedLoader>>

\* a discovered entry point and an added class were both resolved to
\* their classes: here the added one, with the discovered one beside it
C16_Witness ==
    /\ Found
    /\ {foo, foo_bar} \subseteq DOMAIN call.before
    /\ call.before[foo].kind = "EntryPoint"
    /\ call.before[foo_bar].kind = "EntryPointWrapper"
    /\ call.result.name = foo_bar
    /\ call.result.factory = Class("A")

\* longer extends shorter by further space-separated words
Extends(longer, shorter) ==
    /\ shorter # <<>>
    /\ Len(longer) > Len(shorter) + 1
    /\ startswith(longer, shorter \o <<" ">>)

\* the matched name is shadowed: a registered name is a shorter prefix of it
MatchedNameShadowed ==
    \E shorter \in DOMAIN call.before : Extends(call.result.name, shorter)

HasSpace(token) == \E i \in 1..Len(token) : token[i] = " "

\* C17 as stated: whenever the registry holds a name and a longer name
\* extending it by further words, no argv whatsoever, tokens holding a
\* space included, makes find_command return the longer name.
C17_ShadowedNameUnreachable ==
    Found => ~MatchedNameShadowed

\* C17, amended: the longer name is returned for no argv whose tokens
\* hold no space; it is returned for an argv with a token that itself
\* holds a space, such as the single token "foo bar" when "foo" and
\* "foo bar" are both registered.
C17_ShadowedNameNeedsTokenWithSpace ==
    /\ (Found /\ MatchedNameShadowed) =>
        \E i \in 1..Len(call.argv) : HasSpace(call.argv[i])
    /\ ( /\ call.op = "find_command"
         /\ {foo, foo_sp_bar} \subseteq DOMAIN call.before
         /\ call.argv # <<>>
         /\ call.argv[1] = foo_sp_bar )
       => /\ call.result.status = "return"
          /\ call.result.name = foo_sp_bar
          /\ call.result.rest = Tail(call.argv)

\* "foo" and "foo bar" registered: ["foo", "bar"] went to "foo", as any
\* argv of plain words does
C17_Witness ==
    /\ Found
    /\ {foo, foo_sp_bar} \subseteq DOMAIN call.before
    /\ call.argv = <<foo, bar>>
    /\ call.result.name = foo
    /\ ~MatchedNameShadowed

\* C18: the shell only reads the registry.  Whatever lines have been
\* dispatched (help with and without argument, forwarded lines, EOF) and
\* whatever completions have been asked for, the mapping is the one
\* construction left: no entry added, removed or replaced by the shell.
C18_ShellLeavesRegistryAsConstructed ==
    /\ commands = CommandManagerInit(entry_points, convert_underscores)
    /\ DOMAIN commands =
         {(IF convert_underscores THEN replace_underscores(entry_points[i].name)
           ELSE entry_points[i].name) : i \in 1..Len(entry_points)}
    /\ last_add = <<>>

\* help without argument went through the manager twice, with "help"
\* itself registered, and the registry is as it was
C18_Witness ==
    /\ Dispatched
    /\ line = help
    /\ shell.iterations = 2
    /\ {help, foo} \subseteq DOMAIN commands
    /\ commands = CommandManagerInit(entry_points, convert_underscores)

IsLoader(v) == v.kind \in {"EntryPoint", "EntryPointWrapper"}

\* C19: loading is lazy and targeted.  Construction, add_command and
\* iteration call load() on nothing: the mapping holds, and iteration
\* yields, the loaders themselves.  A find_command that returns has called
\* load() exactly once, on the loader registered under the matched name,
\* and returns what that call gave; a find_command that raises has called
\* load() on nothing.
C19_LoadOnlyOnMatch ==
    /\ \A n \in DOMAIN commands : IsLoader(commands[n])
    /\ call.op \in {"__init__", "add_command", "iterate"} => call.loaded = <<>>
    /\ call.op = "iterate" =>
        \A pair \in call.items :
            /\ IsLoader(pair[2])
            /\ pair[2] = commands[pair[1]]
    /\ call.op = "find_command" =>
        IF call.result.status = "return"
        THEN /\ call.result.loaded = <<call.before[call.result.name]>>
             /\ call.result.factory = call.before[call.result.name].command_class
        ELSE /\ call.result.loaded = <<>>
             /\ call.result.factory = NoClass

\* three names registered, ["foo", "bar", "baz"] matched at its second
\* word: one load, on the loader of "foo bar"
C19_Witness ==
    /\ Found
    /\ Cardinality(DOMAIN call.before) >= 3
    /\ call.argv = <<foo, bar, baz>>
    /\ call.result.name = foo_sp_bar
    /\ call.result.loaded = <<call.before[foo_sp_bar]>>

=============================================================================
